---- MODULE Spec2Model ----
(***************************************************************************)
(* SafeScan: the client state container (EmployeeContext.tsx) and the     *)
(* employee REST endpoints it talks to.                                    *)
(*                                                                         *)
(* The container holds employees, currentEmployee, loading and error.     *)
(* Each of its six async methods runs in two steps: the synchronous part   *)
(* up to the await (the call), and the continuation that runs when the     *)
(* request settles (try-rest / catch / finally).  Several calls can be in  *)
(* flight at once; their responses are delivered in any order.             *)
(*                                                                         *)
(* The route handlers (server/routes/employees.js) are not part of the     *)
(* sources at hand; the Server* actions model them from the specification. *)
(***************************************************************************)
EXTENDS Integers, Sequences, FiniteSets, Bags, TLC

\* ---------------------------------------------------------------- bounds
\* Number of calls that can be in flight at once.
NumSlots == 2
\* Number of method calls made in one run.
MaxCalls == 3


\* Identifiers: the storage assigns 1, 2, ... and never assigns 0.
Ids == 0..(MaxCalls + 1)

\* ------------------------------------------------------------- optionals
\* null / undefined is the empty tuple, a present value v is <<v>>.
None == <<>>
Some(v) == <<v>>

\* ------------------------------------------------------------- payloads
\* Omit<Employee, '_id'>: the records createEmployee is called with.
EmployeeData == {[name |-> "A", bloodGroup |-> "O+"]}

\* Partial<Employee>: the payloads updateEmployee is called with; each
\* names only some of the fields.
PartialData == {[name |-> "B"]}

\* ------------------------------------------------------------- responses
\* A settled request as axios hands it to the caller: a 2xx response
\* resolves, anything else rejects; error.response is undefined when the
\* request never completed (status 0 here).  data is the tuple of values
\* the envelope's data carries: the records of a list, the one record or
\* object of a single-valued answer, or nothing.
Ok(d) == [status |-> 200, data |-> d, message |-> None]
Fail(code, m) == [status |-> code, data |-> None, message |-> m]
NoResponse == [status |-> 0, data |-> None, message |-> None]
NoRequest == [status |-> -1, data |-> None, message |-> None]

\* response.data.data of a list answer and of a single-valued answer.
DataList(response) == response.data
DataValue(response) == response.data[1]

\* Messages an error envelope can carry: a text or an empty text.
ErrorMessages == {Some("Server Error"), Some("")}

VARIABLES
    employees,        \* useState<Employee[]>([])
    currentEmployee,  \* useState<Employee | null>(null)
    loading,          \* useState(false)
    error,            \* useState<string | null>(null)
    inflight,         \* the calls whose request has not settled yet (a bag)
    settled,          \* the call whose continuation has just run, if any
    db,               \* the storage collection, newest record first
    nextId,           \* the next identifier the storage assigns
    created,          \* identifiers returned by a resolved createEmployee
    fetched,          \* record of the latest resolved fetchEmployee, if any
    deleted,          \* identifiers of the resolved deleteEmployee calls
    calls             \* number of method calls made so far

vars ==
    <<employees, currentEmployee, loading, error, inflight, settled,
      db, nextId, created, fetched, deleted, calls>>

\* The container's state as one value, for the handlers below.
State ==
    [employees |-> employees, currentEmployee |-> currentEmployee,
     loading |-> loading, error |-> error]

\* A promise returned by one of the async methods.
Unsettled == [state |-> "pending", value |-> None]
Resolved(v) == [state |-> "resolved", value |-> v]
Rejected(m) == [state |-> "rejected", value |-> m]

\* ------------------------------------------------------- client helpers
\* error.response?.data?.message || fallback
errorMessage_nullish(response, fallback) ==
    IF response.message # None THEN response.message[1] ELSE fallback

errorMessage(response, fallback) ==
    IF response.message # None /\ response.message[1] # ""
    THEN response.message[1]
    ELSE fallback

\* prev => [newEmployee, ...prev]
createUpdater_append(newEmployee, prev) == Append(prev, newEmployee)

createUpdater(newEmployee, prev) == <<newEmployee>> \o prev

\* prev => prev.map(emp => emp._id === id ? updatedEmployee : emp)
updateUpdater_upsert(id, updatedEmployee, prev) ==
    IF \E i \in 1..Len(prev) : prev[i]._id = id
    THEN [i \in 1..Len(prev) |-> IF prev[i]._id = id THEN updatedEmployee ELSE prev[i]]
    ELSE Append(prev, updatedEmployee)

updateUpdater_rebuild(id, updatedEmployee, prev) ==
    [i \in 1..Len(prev) |->
        IF prev[i]._id = id
        THEN [_id |-> id, name |-> updatedEmployee.name, bloodGroup |-> ""]
        ELSE prev[i]]

updateUpdater(id, updatedEmployee, prev) ==
    [i \in 1..Len(prev) |-> IF prev[i]._id = id THEN updatedEmployee ELSE prev[i]]

\* prev => prev.filter(emp => emp._id !== id)
deleteUpdater_inverted(id, prev) == SelectSeq(prev, LAMBDA emp : emp._id = id)

deleteUpdater(id, prev) == SelectSeq(prev, LAMBDA emp : emp._id # id)

\* setLoading(true); setError(null): the part of every method before its await.
begin_keepError(st) == [st EXCEPT !.loading = TRUE]

begin(st) == [st EXCEPT !.loading = TRUE, !.error = None]

\* ------------------------------------------- continuations after the await
\* Each returns the container's state after the try-rest / catch / finally
\* of the method has run on the settled request, with the method's promise.
Settled(st, promise) ==
    [employees |-> st.employees, currentEmployee |-> st.currentEmployee,
     loading |-> st.loading, error |-> st.error, promise |-> promise]

fetchEmployeesSettled_merge(st, response) ==
    IF response.status = 200
    THEN Settled([st EXCEPT !.employees = st.employees \o DataList(response),
                            !.loading = FALSE], Resolved(None))
    ELSE Settled([st EXCEPT !.error = Some(errorMessage(response, "Failed to fetch employees")),
                            !.loading = FALSE], Resolved(None))

fetchEmployeesSettled_rethrow(st, response) ==
    IF response.status = 200
    THEN Settled([st EXCEPT !.employees = DataList(response), !.loading = FALSE],
                 Resolved(None))
    ELSE Settled([st EXCEPT !.error = Some(errorMessage(response, "Failed to fetch employees")),
                            !.loading = FALSE],
                 Rejected(errorMessage(response, "Failed to fetch employees")))

fetchEmployeesSettled(st, response) ==
    IF response.status = 200
    THEN Settled([st EXCEPT !.employees = DataList(response), !.loading = FALSE],
                 Resolved(None))
    ELSE Settled([st EXCEPT !.error = Some(errorMessage(response, "Failed to fetch employees")),
                            !.loading = FALSE],
                 Resolved(None))

fetchEmployeeSettled_clear(st, response) ==
    IF response.status = 200
    THEN Settled([st EXCEPT !.currentEmployee = Some(DataValue(response)),
                            !.loading = FALSE], Resolved(DataValue(response)))
    ELSE Settled([st EXCEPT !.error = Some(errorMessage(response, "Failed to fetch employee")),
                            !.currentEmployee = None,
                            !.loading = FALSE],
                 Rejected(errorMessage(response, "Failed to fetch employee")))

fetchEmployeeSettled_unset(st, response) ==
    IF response.status = 200
    THEN Settled([st EXCEPT !.loading = FALSE], Resolved(DataValue(response)))
    ELSE Settled([st EXCEPT !.error = Some(errorMessage(response, "Failed to fetch employee")),
                            !.loading = FALSE],
                 Rejected(errorMessage(response, "Failed to fetch employee")))

fetchEmployeeSettled(st, response) ==
    IF response.status = 200
    THEN Settled([st EXCEPT !.currentEmployee = Some(DataValue(response)),
                            !.loading = FALSE], Resolved(DataValue(response)))
    ELSE Settled([st EXCEPT !.error = Some(errorMessage(response, "Failed to fetch employee")),
                            !.loading = FALSE],
                 Rejected(errorMessage(response, "Failed to fetch employee")))

createEmployeeSettled(st, response) ==
    IF response.status = 200
    THEN Settled([st EXCEPT !.employees = createUpdater(DataValue(response), st.employees),
                            !.loading = FALSE], Resolved(DataValue(response)))
    ELSE Settled([st EXCEPT !.error = Some(errorMessage(response, "Failed to create employee")),
                            !.loading = FALSE],
                 Rejected(errorMessage(response, "Failed to create employee")))

updateEmployeeSettled_noFinally(st, id, response) ==
    IF response.status = 200
    THEN Settled([st EXCEPT !.employees = updateUpdater(id, DataValue(response), st.employees),
                            !.loading = FALSE], Resolved(DataValue(response)))
    ELSE Settled([st EXCEPT !.error = Some(errorMessage(response, "Failed to update employee"))],
                 Rejected(errorMessage(response, "Failed to update employee")))

updateEmployeeSettled(st, id, response) ==
    IF response.status = 200
    THEN Settled([st EXCEPT !.employees = updateUpdater(id, DataValue(response), st.employees),
                            !.loading = FALSE], Resolved(DataValue(response)))
    ELSE Settled([st EXCEPT !.error = Some(errorMessage(response, "Failed to update employee")),
                            !.loading = FALSE],
                 Rejected(errorMessage(response, "Failed to update employee")))

deleteEmployeeSettled_clearCurrent(st, id, response) ==
    IF response.status = 200
    THEN Settled([st EXCEPT !.employees = deleteUpdater(id, st.employees),
                            !.currentEmployee =
                               IF st.currentEmployee # None /\ st.currentEmployee[1]._id = id
                               THEN None ELSE st.currentEmployee,
                            !.loading = FALSE], Resolved(None))
    ELSE Settled([st EXCEPT !.error = Some(errorMessage(response, "Failed to delete employee")),
                            !.loading = FALSE],
                 Rejected(errorMessage(response, "Failed to delete employee")))

deleteEmployeeSettled_optimistic(st, id, response) ==
    IF response.status = 200
    THEN Settled([st EXCEPT !.employees = deleteUpdater(id, st.employees),
                            !.loading = FALSE], Resolved(None))
    ELSE Settled([st EXCEPT !.employees = deleteUpdater(id, st.employees),
                            !.error = Some(errorMessage(response, "Failed to delete employee")),
                            !.loading = FALSE],
                 Rejected(errorMessage(response, "Failed to delete employee")))

deleteEmployeeSettled(st, id, response) ==
    IF response.status = 200
    THEN Settled([st EXCEPT !.employees = deleteUpdater(id, st.employees),
                            !.loading = FALSE], Resolved(None))
    ELSE Settled([st EXCEPT !.error = Some(errorMessage(response, "Failed to delete employee")),
                            !.loading = FALSE],
                 Rejected(errorMessage(response, "Failed to delete employee")))

generateQRCodeSettled_select(st, response) ==
    IF response.status = 200
    THEN Settled([st EXCEPT !.currentEmployee = None, !.loading = FALSE],
                 Resolved(DataValue(response).qrCodeDataUrl))
    ELSE Settled([st EXCEPT !.error = Some(errorMessage(response, "Failed to generate QR code")),
                            !.loading = FALSE],
                 Rejected(errorMessage(response, "Failed to generate QR code")))

generateQRCodeSettled(st, response) ==
    IF response.status = 200
    THEN Settled([st EXCEPT !.loading = FALSE],
                 Resolved(DataValue(response).qrCodeDataUrl))
    ELSE Settled([st EXCEPT !.error = Some(errorMessage(response, "Failed to generate QR code")),
                            !.loading = FALSE],
                 Rejected(errorMessage(response, "Failed to generate QR code")))

\* ----------------------------------------------------------------- Init
\* The container right after EmployeeProvider mounts; the storage holds one
\* record written before this client started.
SeedEmployee == [_id |-> 1, name |-> "A", bloodGroup |-> "O+"]

Init ==
    /\ employees = <<>>
    /\ currentEmployee = None
    /\ loading = FALSE
    /\ error = None
    /\ inflight = EmptyBag
    /\ settled = None
    /\ db = <<SeedEmployee>>
    /\ nextId = 2
    /\ created = {}
    /\ fetched = None
    /\ deleted = {}
    /\ calls = 0

\* A settled promise is consumed by its caller before anything else runs
\* (the awaiting caller's continuation is the next microtask).
Quiet == settled = None

Put(o) == inflight (+) SetToBag({o})
Take(o) == inflight (-) SetToBag({o})

\* ----------------------------------------------------------- client: calls
\* A method is called: its synchronous part runs and the request leaves.
Issue(kind, id, data) ==
    /\ BagCardinality(inflight) < NumSlots
    /\ calls < MaxCalls
    /\ calls' = calls + 1
    /\ loading' = begin(State).loading
    /\ error' = begin(State).error
    /\ employees' = begin(State).employees
    /\ currentEmployee' = begin(State).currentEmployee
    /\ inflight' = Put([pc |-> "pending", kind |-> kind, id |-> id, data |-> data,
                        response |-> NoRequest,
                        mark |-> IF kind = "fetchEmployees" THEN created ELSE {},
                        intact |-> {},
                        prior |-> None,
                        overwrote |-> error # None,
                        startCurrent |-> IF kind = "fetchEmployee"
                                         THEN currentEmployee ELSE None])
    /\ UNCHANGED <<settled, db, nextId, created, fetched, deleted>>

\* The identifiers a caller can pass: any the storage has assigned so far
\* (still stored or deleted since), or one that was never assigned.
Callable == {i \in Ids : i < nextId}

FetchEmployeesCall ==
    /\ Quiet
    /\ Issue("fetchEmployees", None, None)

FetchEmployeeCall ==
    /\ Quiet
    /\ \E id \in Callable : Issue("fetchEmployee", Some(id), None)

CreateEmployeeCall ==
    /\ Quiet
    /\ \E employeeData \in EmployeeData :
          Issue("createEmployee", None, Some(employeeData))

UpdateEmployeeCall ==
    /\ Quiet
    /\ \E id \in Callable, employeeData \in PartialData :
          Issue("updateEmployee", Some(id), Some(employeeData))

DeleteEmployeeCall ==
    /\ Quiet
    /\ \E id \in Callable : Issue("deleteEmployee", Some(id), None)

GenerateQRCodeCall ==
    /\ Quiet
    /\ \E id \in Callable : Issue("generateQRCode", Some(id), None)

\* ------------------------------------------------- client: continuations
\* The awaited request of call o has settled: the rest of the method runs.
\* settled keeps the call, its promise and the container as it was before.
Apply(o, r) ==
    /\ employees' = r.employees
    /\ currentEmployee' = r.currentEmployee
    /\ loading' = r.loading
    /\ error' = r.error
    /\ inflight' = Take(o)
    /\ settled' = Some([call |-> o, promise |-> r.promise, before |-> State])
    /\ fetched' = IF o.kind = "fetchEmployee" /\ o.response.status = 200
                  THEN Some(DataValue(o.response))
                  ELSE fetched
    /\ deleted' = IF o.kind = "deleteEmployee" /\ o.response.status = 200
                  THEN deleted \cup {o.id[1]}
                  ELSE deleted
    /\ UNCHANGED <<db, nextId, calls>>

Ready(kind) ==
    {o \in BagToSet(inflight) : Quiet /\ o.pc = "responded" /\ o.kind = kind}

FetchEmployeesSettle ==
    \E o \in Ready("fetchEmployees") :
        /\ Apply(o, fetchEmployeesSettled(State, o.response))
        /\ UNCHANGED created

FetchEmployeeSettle ==
    \E o \in Ready("fetchEmployee") :
        /\ Apply(o, fetchEmployeeSettled(State, o.response))
        /\ UNCHANGED created

CreateEmployeeSettle ==
    \E o \in Ready("createEmployee") :
        /\ Apply(o, createEmployeeSettled(State, o.response))
        /\ created' = IF o.response.status = 200
                      THEN created \cup {DataValue(o.response)._id}
                      ELSE created

UpdateEmployeeSettle ==
    \E o \in Ready("updateEmployee") :
        /\ Apply(o, updateEmployeeSettled(State, o.id[1], o.response))
        /\ UNCHANGED created

DeleteEmployeeSettle ==
    \E o \in Ready("deleteEmployee") :
        /\ Apply(o, deleteEmployeeSettled(State, o.id[1], o.response))
        /\ UNCHANGED created

GenerateQRCodeSettle ==
    \E o \in Ready("generateQRCode") :
        /\ Apply(o, generateQRCodeSettled(State, o.response))
        /\ UNCHANGED created

\* The caller has consumed the settled promise.
Release ==
    /\ settled # None
    /\ settled' = None
    /\ UNCHANGED <<employees, currentEmployee, loading, error, inflight,
                   db, nextId, created, fetched, deleted, calls>>

\* ---------------------------------------------------------------- server
Stored(id) == \E i \in 1..Len(db) : db[i]._id = id

Find(id) == db[CHOOSE i \in 1..Len(db) : db[i]._id = id]

\* The answer to call o leaves the server.  intact and prior record what
\* the storage held when the request was handled.
Respond(o, response) ==
    /\ inflight' =
         (Take(o)) (+) SetToBag({[o EXCEPT
             !.pc = "responded", !.response = response,
             !.intact = IF o.kind = "fetchEmployees"
                        THEN {i \in o.mark : db # <<>> /\ db[1]._id = i}
                        ELSE {},
             !.prior = IF o.kind = "updateEmployee" /\ response.status = 200
                       THEN Some(Find(o.id[1]))
                       ELSE None]})
    /\ UNCHANGED <<employees, currentEmployee, loading, error, settled,
                   created, fetched, deleted, calls>>

Received(kind) ==
    {o \in BagToSet(inflight) : Quiet /\ o.pc = "pending" /\ o.kind = kind}

NotFound == Fail(404, Some("Employee not found"))

\* Merge of a partial payload into a stored record.
Merge(emp, partial) ==
    [_id |-> emp._id,
     name |-> IF "name" \in DOMAIN partial THEN partial.name ELSE emp.name,
     bloodGroup |-> IF "bloodGroup" \in DOMAIN partial
                    THEN partial.bloodGroup ELSE emp.bloodGroup]

QRCodeDataUrl(id) == <<"data:image/png;base64", id>>

\* GET /api/employees
ServerList ==
    \E o \in Received("fetchEmployees") :
        /\ Respond(o, Ok(db))
        /\ UNCHANGED <<db, nextId>>

\* GET /api/employees/:id
ServerGet ==
    \E o \in Received("fetchEmployee") :
        /\ Respond(o, IF Stored(o.id[1]) THEN Ok(Some(Find(o.id[1]))) ELSE NotFound)
        /\ UNCHANGED <<db, nextId>>

\* POST /api/employees
ServerCreate ==
    \E o \in Received("createEmployee") :
        LET emp == [_id |-> nextId, name |-> o.data[1].name,
                    bloodGroup |-> o.data[1].bloodGroup]
        IN /\ db' = <<emp>> \o db
           /\ nextId' = nextId + 1
           /\ Respond(o, Ok(Some(emp)))

\* PUT /api/employees/:id
ServerUpdate ==
    \E o \in Received("updateEmployee") :
        /\ IF Stored(o.id[1])
           THEN LET emp == Merge(Find(o.id[1]), o.data[1])
                IN /\ db' = [i \in 1..Len(db) |->
                                IF db[i]._id = o.id[1] THEN emp ELSE db[i]]
                   /\ Respond(o, Ok(Some(emp)))
           ELSE /\ db' = db
                /\ Respond(o, NotFound)
        /\ UNCHANGED nextId

\* DELETE /api/employees/:id
ServerDelete ==
    \E o \in Received("deleteEmployee") :
        /\ IF Stored(o.id[1])
           THEN /\ db' = SelectSeq(db, LAMBDA emp : emp._id # o.id[1])
                /\ Respond(o, Ok(None))
           ELSE /\ db' = db
                /\ Respond(o, NotFound)
        /\ UNCHANGED nextId

\* GET /api/employees/:id/qr
ServerQR ==
    \E o \in Received("generateQRCode") :
        /\ Respond(o, IF Stored(o.id[1])
                      THEN Ok(Some([qrCodeDataUrl |-> QRCodeDataUrl(o.id[1])]))
                      ELSE NotFound)
        /\ UNCHANGED <<db, nextId>>

\* Any route: the error-handling middleware answers with an error envelope.
ServerError ==
    \E o \in BagToSet(inflight), m \in ErrorMessages :
        /\ Quiet
        /\ o.pc = "pending"
        /\ Respond(o, Fail(500, m))
        /\ UNCHANGED <<db, nextId>>

\* ------------------------------------------------------------- transport
\* The request never completes: axios rejects without a response.
NetworkError ==
    \E o \in BagToSet(inflight) :
        /\ Quiet
        /\ o.pc = "pending"
        /\ Respond(o, NoResponse)
        /\ UNCHANGED <<db, nextId>>

\* ------------------------------------------------------------------ Next
Next ==
    \/ FetchEmployeesCall
    \/ FetchEmployeeCall
    \/ CreateEmployeeCall
    \/ UpdateEmployeeCall
    \/ DeleteEmployeeCall
    \/ GenerateQRCodeCall
    \/ FetchEmployeesSettle
    \/ FetchEmployeeSettle
    \/ CreateEmployeeSettle
    \/ UpdateEmployeeSettle
    \/ DeleteEmployeeSettle
    \/ GenerateQRCodeSettle
    \/ Release
    \/ ServerList
    \/ ServerGet
    \/ ServerCreate
    \/ ServerUpdate
    \/ ServerDelete
    \/ ServerQR
    \/ ServerError
    \/ NetworkError

Spec == Init /\ [][Next]_vars

\* ================================================================ claims
\* The call whose continuation has just run, its request's outcome, and the
\* container as it was just before that continuation.
Just(kind) == settled # None /\ settled[1].call.kind = kind
JustOk(kind) == Just(kind) /\ settled[1].call.response.status = 200
JustFailed(kind) == Just(kind) /\ settled[1].call.response.status # 200
TheCall == settled[1].call
TheId == settled[1].call.id[1]
TheResponse == settled[1].call.response
ThePromise == settled[1].promise
Before == settled[1].before

IdsOf(list) == {list[i]._id : i \in 1..Len(list)}
Occurrences(list, id) == Cardinality({i \in 1..Len(list) : list[i]._id = id})

\* list with every entry that has identifier id left out, order kept.
RECURSIVE Without(_, _)
Without(list, id) ==
    IF list = <<>> THEN <<>>
    ELSE IF Head(list)._id = id THEN Without(Tail(list), id)
    ELSE <<Head(list)>> \o Without(Tail(list), id)

\* C1: when createEmployee succeeds, the cached list is the server-returned
\* record followed by the previous list in its previous order, and the call
\* returns that record.
C1_CreatePrepends ==
    JustOk("createEmployee") =>
        /\ Len(employees) = Len(Before.employees) + 1
        /\ employees[1] = DataValue(TheResponse)
        /\ \A i \in 1..Len(Before.employees) : employees[i + 1] = Before.employees[i]
        /\ ThePromise.state = "resolved"
        /\ ThePromise.value = DataValue(TheResponse)

C1_Witness == JustOk("createEmployee") /\ Before.employees # <<>>

\* C2 as claimed: after a createEmployee has succeeded, every fetchEmployees
\* issued later that succeeds leaves the created record in the cached list
\* exactly once and at the first position.
C2_Original ==
    JustOk("fetchEmployees") =>
        \A id \in TheCall.mark :
            Occurrences(employees, id) = 1 /\ employees[1]._id = id

\* C2 as amended: the same, for a created record that is still stored and is
\* still the most recently created one when the server handles the list
\* request.
C2_FetchAfterCreate ==
    JustOk("fetchEmployees") =>
        \A id \in TheCall.intact :
            Occurrences(employees, id) = 1 /\ employees[1]._id = id

C2_Witness ==
    JustOk("fetchEmployees") /\ TheCall.intact # {} /\ Len(employees) > 1

\* C3: every entry of the cached list carries an identifier the server
\* assigned, and no two entries share an identifier.
C3_UniqueServerIds ==
    /\ \A i \in 1..Len(employees) :
          employees[i]._id >= 1 /\ employees[i]._id < nextId
    /\ \A i, j \in 1..Len(employees) :
          employees[i]._id = employees[j]._id => i = j

\* C4 as claimed: when deleteEmployee(id) succeeds, exactly one entry, the
\* one with identifier id, leaves the cached list and the rest keep their
\* order.
C4_Original ==
    JustOk("deleteEmployee") =>
        /\ Len(employees) = Len(Before.employees) - 1
        /\ employees = Without(Before.employees, TheId)

\* C4 as amended: when deleteEmployee(id) succeeds, every cached entry with
\* identifier id is removed (none when the cache holds none) and the rest
\* keep their order.
C4_DeleteRemovesMatching ==
    JustOk("deleteEmployee") =>
        /\ TheId \notin IdsOf(employees)
        /\ Len(employees) =
              Len(Before.employees) - Occurrences(Before.employees, TheId)
        /\ employees = Without(Before.employees, TheId)

C4_Witness ==
    /\ JustOk("deleteEmployee")
    /\ TheId \in IdsOf(Before.employees)
    /\ employees # <<>>

\* C5: when updateEmployee(id, partialData) succeeds, each cached entry with
\* identifier id is replaced at its position by the server-returned record,
\* every other entry and the length are unchanged; with no such entry the
\* list is unchanged.
C5_UpdateReplacesInPlace ==
    JustOk("updateEmployee") =>
        /\ Len(employees) = Len(Before.employees)
        /\ \A i \in 1..Len(Before.employees) :
              employees[i] = IF Before.employees[i]._id = TheId
                             THEN DataValue(TheResponse)
                             ELSE Before.employees[i]
        /\ TheId \notin IdsOf(Before.employees) => employees = Before.employees

C5_Witness ==
    /\ JustOk("updateEmployee")
    /\ Len(Before.employees) > 1
    /\ TheId \in IdsOf(Before.employees)
    /\ employees # Before.employees

\* C6: when fetchEmployees succeeds, the cached list is exactly the list of
\* the response; entries of the previous list that the response lacks are
\* gone.
C6_FetchReplaces ==
    JustOk("fetchEmployees") =>
        /\ employees = DataList(TheResponse)
        /\ \A i \in 1..Len(Before.employees) :
              (\A j \in 1..Len(DataList(TheResponse)) :
                  DataList(TheResponse)[j] # Before.employees[i])
              => \A k \in 1..Len(employees) : employees[k] # Before.employees[i]

C6_Witness ==
    /\ JustOk("fetchEmployees")
    /\ \E i \in 1..Len(Before.employees) :
          \A k \in 1..Len(employees) : employees[k] # Before.employees[i]

\* C7: when fetchEmployees fails, error holds a non-empty message, the
\* promise still resolves, and the cached list is unchanged.
C7_FetchFailureSilent ==
    JustFailed("fetchEmployees") =>
        /\ error # None
        /\ error[1] # ""
        /\ ThePromise.state = "resolved"
        /\ employees = Before.employees

C7_Witness == JustFailed("fetchEmployees") /\ Before.employees # <<>>

\* The generic message of each method that rethrows.
Fallback(kind) ==
    CASE kind = "fetchEmployee" -> "Failed to fetch employee"
      [] kind = "createEmployee" -> "Failed to create employee"
      [] kind = "updateEmployee" -> "Failed to update employee"
      [] kind = "deleteEmployee" -> "Failed to delete employee"
      [] kind = "generateQRCode" -> "Failed to generate QR code"

Rethrowing ==
    {"fetchEmployee", "createEmployee", "updateEmployee", "deleteEmployee",
     "generateQRCode"}

\* C8: when fetchEmployee, createEmployee, updateEmployee, deleteEmployee or
\* generateQRCode fails, the promise rejects with exactly the message put
\* in error: the response's message when present and non-empty, else the
\* method's generic message; never an empty one.
C8_RejectionCarriesStoredMessage ==
    \A kind \in Rethrowing :
        JustFailed(kind) =>
            /\ ThePromise.state = "rejected"
            /\ error = Some(ThePromise.value)
            /\ ThePromise.value # ""
            /\ ThePromise.value =
                  IF TheResponse.message # None /\ TheResponse.message # Some("")
                  THEN TheResponse.message[1]
                  ELSE Fallback(kind)

C8_Witness ==
    \E kind \in Rethrowing : JustFailed(kind) /\ TheResponse.message = Some("")

\* C9 as claimed: when fetchEmployee fails, the promise rejects with a
\* non-empty message and currentEmployee is what it was when the call
\* started.
C9_Original ==
    JustFailed("fetchEmployee") =>
        /\ ThePromise.state = "rejected"
        /\ ThePromise.value # ""
        /\ currentEmployee = TheCall.startCurrent

\* C9 as amended: when fetchEmployee fails, the promise rejects with a
\* non-empty message and handling the failure leaves currentEmployee as it
\* was just before (another fetchEmployee that succeeded since the call
\* started may have changed it).
C9_FailureKeepsCurrent ==
    JustFailed("fetchEmployee") =>
        /\ ThePromise.state = "rejected"
        /\ ThePromise.value # ""
        /\ currentEmployee = Before.currentEmployee

C9_Witness ==
    /\ JustFailed("fetchEmployee")
    /\ ~Stored(TheId)
    /\ currentEmployee # None

\* C10: generateQRCode leaves the cached list and currentEmployee unchanged
\* whether it succeeds or fails, and on success returns the data URL of the
\* response.
C10_QRLeavesCacheAlone ==
    Just("generateQRCode") =>
        /\ employees = Before.employees
        /\ currentEmployee = Before.currentEmployee
        /\ TheResponse.status = 200 =>
              /\ ThePromise.state = "resolved"
              /\ ThePromise.value = DataValue(TheResponse).qrCodeDataUrl

C10_Witness ==
    /\ JustOk("generateQRCode")
    /\ employees # <<>>
    /\ currentEmployee # None

\* C11: when fetchEmployee succeeds, currentEmployee is the record of the
\* response, the call returns that record, and the cached list is unchanged.
C11_FetchSetsCurrent ==
    JustOk("fetchEmployee") =>
        /\ currentEmployee = Some(DataValue(TheResponse))
        /\ ThePromise.state = "resolved"
        /\ ThePromise.value = DataValue(TheResponse)
        /\ employees = Before.employees

C11_Witness ==
    /\ JustOk("fetchEmployee")
    /\ employees # <<>>
    /\ Before.currentEmployee # currentEmployee

\* The fields of a stored record.
Fields == {"_id", "name", "bloodGroup"}

\* C12: after updateEmployee(id, partialData) succeeds, the record the
\* server returns, which the client puts in place of the cached entries
\* with identifier id, has every field that the payload does not name equal
\* to the value stored before the update.
C12_PartialUpdateKeepsFields ==
    JustOk("updateEmployee") =>
        \A f \in Fields \ DOMAIN TheCall.data[1] :
            /\ DataValue(TheResponse)[f] = TheCall.prior[1][f]
            /\ \A i \in 1..Len(employees) :
                  employees[i]._id = TheId => employees[i][f] = TheCall.prior[1][f]

C12_Witness ==
    /\ JustOk("updateEmployee")
    /\ TheId \in IdsOf(employees)
    /\ DataValue(TheResponse) # TheCall.prior[1]

\* C13: a completion sets loading to false while another call is still
\* pending, and the start of a call sets to null an error that an earlier
\* failure stored; the witness is a state where both have happened.
C13_LastWriteWins ==
    [][/\ (settled = None /\ settled' # None /\ inflight' # EmptyBag)
            => loading' = FALSE
       /\ (calls' # calls /\ error # None) => error' = None]_vars

C13_Witness ==
    /\ loading = FALSE
    /\ error = None
    /\ \E o \in BagToSet(inflight) : o.overwrote

\* C14: every call sets loading to true and error to null when it starts
\* and sets loading to false when it settles, on success and on failure;
\* so in every state with no call in flight loading is false.
C14_LoadingAroundCalls ==
    /\ [](inflight = EmptyBag => loading = FALSE)
    /\ [][/\ calls' # calls => (loading' = TRUE /\ error' = None)
          /\ (settled = None /\ settled' # None) => loading' = FALSE]_vars

C14_Witness ==
    /\ JustFailed("updateEmployee")
    /\ inflight = EmptyBag
    /\ Before.loading = TRUE
    /\ loading = FALSE

\* C15: in every state in which no call is in flight and one has settled,
\* error is the failure message of the call that settled last if it failed
\* and null if it succeeded.  (Stated on the state right after the last
\* call settles; error does not change from there until the next call.)
C15_ErrorOfLastSettled ==
    (settled # None /\ inflight = EmptyBag) =>
        IF TheResponse.status = 200
        THEN error = None
        ELSE /\ error # None
             /\ error[1] =
                   IF TheResponse.message # None /\ TheResponse.message # Some("")
                   THEN TheResponse.message[1]
                   ELSE IF TheCall.kind = "fetchEmployees"
                        THEN "Failed to fetch employees"
                        ELSE Fallback(TheCall.kind)

\* C16: currentEmployee is null while no fetchEmployee has succeeded and
\* otherwise the record of the fetchEmployee that succeeded last; no other
\* method's completion changes it, not even an update or a delete of the
\* record with that identifier.
C16_CurrentIsLastFetched ==
    /\ currentEmployee = fetched
    /\ (settled # None /\ TheCall.kind # "fetchEmployee")
          => currentEmployee = Before.currentEmployee

C16_Witness ==
    /\ JustOk("deleteEmployee")
    /\ currentEmployee # None
    /\ currentEmployee[1]._id = TheId

\* C17: a failed call changes no cached data: whichever of the six methods
\* it is, the cached list and currentEmployee are the same right after the
\* failure is handled as right before; only loading and error change.
C17_FailureKeepsCache ==
    (settled # None /\ TheResponse.status # 200) =>
        /\ employees = Before.employees
        /\ currentEmployee = Before.currentEmployee
        /\ loading = FALSE
        /\ error # None

C17_Witness ==
    /\ JustFailed("deleteEmployee")
    /\ TheId \in IdsOf(employees)
    /\ currentEmployee # None

\* C18: once deleteEmployee(id) has succeeded, the cached list never again
\* holds an entry with identifier id.
C18_DeletedStaysGone == \A id \in deleted : id \notin IdsOf(employees)

====
